---- MODULE Spec2Model ----
(***************************************************************************)
(* Model of redis_memory.Memory (src/src/redis_memory/__init__.py): a      *)
(* store of named values mirrored to a shared Redis backend, with a local  *)
(* cache, a last-modified index, a queue of pending writes and a           *)
(* background thread draining the queue.                                   *)
(*                                                                         *)
(* Each store has one caller thread (get / set / delete, one backend call  *)
(* per step) and one background flush thread. The backend is one Redis     *)
(* that is reachable or not (up); every backend call made while it is not  *)
(* reachable raises.                                                       *)
(***************************************************************************)
EXTENDS Integers, Sequences, FiniteSets, TLC

\* ---------------------------------------------------------------- bounds
MaxClock == 2
MaxQueue == 2
MaxCalls == 2
MaxLen == 2

Stores == {"A", "B"}
Names == {"x", "y"}

\* ------------------------------------------------------- Python values
\* A Python value is a record tagged with its type (t).
PyNone == [t |-> "None"]
PyInt(i) == [t |-> "int", v |-> i]
PyList(items) == [t |-> "list", items |-> items]
PyTuple(items) == [t |-> "tuple", items |-> items]
PyFunction == [t |-> "function"]
SyncedList(items, topmost_key) ==
    [t |-> "SyncedList", items |-> items, topmost_key |-> topmost_key]
\* A dict with string keys, and its tracking subclass.
PyDict(fields) == [t |-> "dict", fields |-> fields]
SyncedDict(fields, topmost_key) ==
    [t |-> "SyncedDict", fields |-> fields, topmost_key |-> topmost_key]
IsMapping(v) == v.t \in {"dict", "SyncedDict"}

IsSequence(v) == v.t \in {"list", "tuple", "SyncedList"}

\* wrap_sync: a list becomes a SyncedList of wrapped items, item i under the
\* key "topmost_key[i]"; a dict becomes a SyncedDict of wrapped values under
\* the same key; anything else (a tuple too) is returned as is.
RECURSIVE wrap_sync(_, _)
wrap_sync(obj, topmost_key) ==
    IF obj.t \in {"list", "SyncedList"}
    THEN SyncedList([i \in 1..Len(obj.items) |->
                        wrap_sync(obj.items[i],
                                  topmost_key \o "[" \o ToString(i - 1) \o "]")],
                    topmost_key)
    ELSE IF IsMapping(obj)
    THEN SyncedDict([k \in DOMAIN obj.fields |->
                        wrap_sync(obj.fields[k], topmost_key)], topmost_key)
    ELSE obj

\* Python's ==: a list and a SyncedList (a list subclass) compare by their
\* items, a dict and a SyncedDict by their keys and values; a tuple equals
\* only a tuple.
RECURSIVE PyEq(_, _)
PyEq(a, b) ==
    LET kind(v) == IF v.t \in {"list", "SyncedList"} THEN "list"
                   ELSE IF IsMapping(v) THEN "dict" ELSE v.t
    IN  /\ kind(a) = kind(b)
        /\ CASE kind(a) \in {"list", "tuple"} ->
                   /\ Len(a.items) = Len(b.items)
                   /\ \A i \in 1..Len(a.items) : PyEq(a.items[i], b.items[i])
             [] kind(a) = "dict" ->
                   /\ DOMAIN a.fields = DOMAIN b.fields
                   /\ \A k \in DOMAIN a.fields : PyEq(a.fields[k], b.fields[k])
             [] kind(a) = "int" -> a.v = b.v
             [] OTHER -> TRUE

\* ---------------------------------------------------------------- JSON
\* A JSON text is a record tagged with its JSON type (j).
JNull == [j |-> "null"]
JNum(i) == [j |-> "num", v |-> i]
JArr(items) == [j |-> "arr", items |-> items]
JObj(fields) == [j |-> "obj", fields |-> fields]

\* (mutant) the exception of json.dumps is swallowed.
SerializableUnchecked(v) == TRUE

\* json.dumps raises TypeError on a value it has no encoding for.
RECURSIVE Serializable(_)
Serializable(v) ==
    CASE v.t \in {"None", "int"} -> TRUE
      [] IsSequence(v) -> \A i \in 1..Len(v.items) : Serializable(v.items[i])
      [] IsMapping(v) -> \A k \in DOMAIN v.fields : Serializable(v.fields[k])
      [] OTHER -> FALSE

\* json.dumps: lists, tuples and list subclasses all encode as an array,
\* dicts and dict subclasses as an object.
RECURSIVE Dumps(_)
Dumps(v) ==
    CASE v.t = "None" -> JNull
      [] v.t = "int" -> JNum(v.v)
      [] IsMapping(v) -> JObj([k \in DOMAIN v.fields |-> Dumps(v.fields[k])])
      [] OTHER -> JArr([i \in 1..Len(v.items) |-> Dumps(v.items[i])])

\* json.loads: an array decodes to a plain list, an object to a plain dict.
RECURSIVE Loads(_)
Loads(doc) ==
    CASE doc.j = "null" -> PyNone
      [] doc.j = "num" -> PyInt(doc.v)
      [] doc.j = "obj" -> PyDict([k \in DOMAIN doc.fields |-> Loads(doc.fields[k])])
      [] OTHER -> PyList([i \in 1..Len(doc.items) |-> Loads(doc.items[i])])

\* The payload {"value": ..., "last_modified": ...} and its JSON text.
Payload(value, ts) == [value |-> value, last_modified |-> ts]
DumpsPayload(p) ==
    JObj([value |-> Dumps(p.value), last_modified |-> p.last_modified])
\* (mutant) the timestamp is looked up under a key the payload lacks.
LoadsPayloadUnstamped(doc) ==
    [value |-> Loads(doc.fields.value), last_modified |-> 0]
LoadsPayload(doc) ==
    [value |-> Loads(doc.fields.value), last_modified |-> doc.fields.last_modified]

\* A stored text is a JSON object (json.loads gives a dict, which has .get).
IsObject(doc) == doc.j = "obj"

\* A stored text has the envelope: it is an object with the keys "value" and
\* "last_modified".
IsEnvelope(doc) ==
    /\ IsObject(doc)
    /\ {"value", "last_modified"} \subseteq DOMAIN doc.fields

\* obj.get("last_modified", 0) of an object.
Timestamp(doc) ==
    IF "last_modified" \in DOMAIN doc.fields THEN doc.fields.last_modified ELSE 0

\* Texts without the envelope, as an earlier version of the program (or
\* another program) left them under the prefix: a number, an object, and an
\* object that has a key "value" of its own.
LegacyDocs == { JNum(7), JObj([k \in {"k"} |-> JNum(1)]),
                JObj([k \in {"value"} |-> JNum(1)]) }

\* ------------------------------------------------------------- Python dict
Put(d, k, v) == [n \in DOMAIN d \cup {k} |-> IF n = k THEN v ELSE d[n]]
Del(d, k) == [n \in DOMAIN d \ {k} |-> d[n]]
EmptyDict == [n \in {} |-> PyNone]

\* ------------------------------------------------------------ containers
IsTracked(v) == v.t \in {"SyncedList", "SyncedDict"}
Keys(v) == IF IsMapping(v) THEN DOMAIN v.fields
           ELSE IF IsSequence(v) THEN 1..Len(v.items) ELSE {}
Child(v, k) == IF IsMapping(v) THEN v.fields[k] ELSE v.items[k]
Size(v) == IF IsMapping(v) THEN Cardinality(DOMAIN v.fields) ELSE Len(v.items)

\* The container inside v that the keys of path lead to.
RECURSIVE At(_, _)
At(v, path) ==
    IF path = <<>> THEN v ELSE At(Child(v, Head(path)), Tail(path))

\* v with the container at path replaced by new.
RECURSIVE Replaced(_, _, _)
Replaced(v, path, new) ==
    IF path = <<>> THEN new
    ELSE LET k == Head(path)
             child == Replaced(Child(v, k), Tail(path), new)
         IN  IF IsMapping(v)
             THEN [v EXCEPT !.fields = Put(@, k, child)]
             ELSE [v EXCEPT !.items = [@ EXCEPT ![k] = child]]

\* The paths to the tracking containers of v: v itself and, through tracking
\* containers only, those nested in it.
RECURSIVE Paths(_)
Paths(v) ==
    IF ~IsTracked(v) THEN {}
    ELSE {<<>>} \cup UNION { { <<k>> \o path : path \in Paths(Child(v, k)) }
                             : k \in Keys(v) }

\* The paths to the plain lists and dicts of a plain value v.
RECURSIVE PlainPaths(_)
PlainPaths(v) ==
    IF v.t \notin {"list", "dict"} THEN {}
    ELSE {<<>>} \cup UNION { { <<k>> \o path : path \in PlainPaths(Child(v, k)) }
                             : k \in Keys(v) }

\* aslist / asdict: a new plain list / dict; an item that is a tracking
\* container is converted in turn, any other item is put in as it is.
RECURSIVE Detached(_)
Detached(v) ==
    LET item(k) == IF IsTracked(Child(v, k)) THEN Detached(Child(v, k))
                   ELSE Child(v, k)
    IN  IF v.t = "SyncedList"
        THEN PyList([i \in 1..Len(v.items) |-> item(i)])
        ELSE PyDict([k \in DOMAIN v.fields |-> item(k)])

\* The paths at which aslist / asdict of v holds the very object v holds: the
\* plain lists and dicts among v's items, which were put in as they are, and
\* what they contain.
RECURSIVE SharedPaths(_)
SharedPaths(v) ==
    UNION { { <<k>> \o path :
                path \in IF IsTracked(Child(v, k))
                         THEN SharedPaths(Child(v, k))
                         ELSE PlainPaths(Child(v, k)) }
            : k \in Keys(v) }

\* The items a caller adds to a container: a scalar and a plain list.
MutationItems == { PyInt(2), PyList(<<PyInt(3)>>) }

\* The intercepted in-place mutations of a tracking container.
Mutations(c) ==
    IF c.t = "SyncedList"
    THEN { [m |-> m, item |-> item] :
              m \in {"append", "insert", "extend"}, item \in MutationItems }
    ELSE { [m |-> m, key |-> key, item |-> item] :
              m \in {"setitem", "update"}, key \in {"k", "j"},
              item \in MutationItems }

\* The container after the list / dict method has run: append(item),
\* insert(0, item), extend([item]); c[key] = item, update({key: item}). The
\* item is stored as given, not wrapped.
Mutated(c, mutation) ==
    CASE mutation.m \in {"append", "extend"} ->
             [c EXCEPT !.items = Append(@, mutation.item)]
      [] mutation.m = "insert" ->
             [c EXCEPT !.items = <<mutation.item>> \o @]
      [] OTHER ->
             [c EXCEPT !.fields = Put(@, mutation.key, mutation.item)]

\* The values a caller assigns: null, a falsy scalar, a list, and a value
\* json has no encoding for.
Values == { PyNone, PyInt(0), PyList(<<PyInt(1)>>), PyFunction }
\* ... and a tuple, which json encodes as an array.
MoreValues == Values \cup { PyInt(1), PyTuple(<<PyInt(1)>>) }
\* Structured values: a list in a list and a list in a dict.
Containers == { PyList(<<PyList(<<PyInt(1)>>)>>),
                PyDict([k \in {"k"} |-> PyList(<<PyInt(1)>>)]) }

\* --------------------------------------------------------------- state
VARIABLES
    up,             \* the backend answers (ping and every later call)
    now,            \* the clock time.time_ns() reads
    redis,          \* the backend: key |-> JSON text
    attributes,     \* per store: _attributes
    last_modified,  \* per store: _last_modified
    queue,          \* per store: _queue, a sequence of <<name, payload>>
    connected,      \* per store: _is_connected_to_redis_at_least_once
    caller,         \* per store: where its caller thread is
    bg,             \* per store: where its background flush thread is
    pending,        \* per store (history): name |-> the payload this store
                    \* queued last for it, while that is the last write of
                    \* the name and no drain that took it has failed
    fresh,          \* (history) name |-> the store and payload of the set that
                    \* wrote it to the backend, while no other write of the
                    \* name has begun or reached the backend since
    calls,          \* the number of get, set and delete calls made so far
    stop_event,     \* per store: _stop_event is set
    reached,        \* per store (history): a _connect of the store succeeded
    removed,        \* (history) name |-> the timestamp of the deletion that
                    \* removed the key from the backend, while the key is absent
    held            \* per store: the container of an earlier get that the
                    \* caller's code has kept

vars == <<up, now, redis, attributes, last_modified, queue, connected, caller,
          bg, pending, fresh, calls, stop_event, reached, removed, held>>

Idle == [pc |-> "idle"]
\* The caller's code holds no container; it holds the container the store
\* caches for name; it holds a container the store cached for name before the
\* cache entry was replaced.
NoHandle == [kind |-> "none"]
CachedHandle(name) == [kind |-> "cached", name |-> name]
StaleHandle(name, value) == [kind |-> "stale", name |-> name, value |-> value]
\* No key has a recorded time.
EmptyTimes == [n \in {} |-> 0]
\* The caller thread is back in the caller's code with the call's outcome:
\* out is "ok" (a normal return) or the name of the exception raised.
Ret(op, name, arg, out, value) ==
    [pc |-> "ret", op |-> op, name |-> name, arg |-> arg, out |-> out,
     value |-> value]
\* The caller thread is inside a call, past its connection attempt.
Within(pc, op, name, arg) == [pc |-> pc, op |-> op, name |-> name, arg |-> arg]

Init ==
    /\ up \in BOOLEAN
    /\ now = 1
    /\ redis = EmptyDict
    /\ attributes = [s \in Stores |-> EmptyDict]
    /\ last_modified = [s \in Stores |-> EmptyDict]
    /\ queue = [s \in Stores |-> <<>>]
    /\ connected = [s \in Stores |-> FALSE]
    /\ caller = [s \in Stores |-> Idle]
    /\ bg = [s \in Stores |-> [pc |-> "loop"]]
    /\ pending = [s \in Stores |-> EmptyDict]
    /\ fresh = EmptyDict
    /\ calls = 0
    /\ stop_event = [s \in Stores |-> FALSE]
    /\ reached = [s \in Stores |-> FALSE]
    /\ removed = EmptyTimes
    /\ held = [s \in Stores |-> NoHandle]

\* A caller thread that is in the caller's code makes its next call.
Call(s) ==
    /\ caller[s].pc = "idle"
    /\ calls < MaxCalls
    /\ calls' = calls + 1

\* (mutant) an entry replaces the entries queued for the same name.
EnqueueLatestOnly(q, name, payload) ==
    Append(SelectSeq(q, LAMBDA e : e[1] # name), <<name, payload>>)

\* _queue.append((name, payload))
Enqueue(q, name, payload) == Append(q, <<name, payload>>)

\* _connect returned a client to store s.
Pinged(s) == [reached EXCEPT ![s] = TRUE]

\* A write or delete of key n that reaches the backend from outside a drain.
Forget(n) == [s \in Stores |-> Del(pending[s], n)]

\* A deletion stamped ts takes key from the backend, if the backend has it.
Removal(key, ts) ==
    IF key \in DOMAIN redis THEN Put(removed, key, ts) ELSE removed

\* The cache entry of name is replaced or removed: a container the caller
\* holds from it is no longer the one the store caches.
Superseded(s, name) ==
    [held EXCEPT ![s] =
        IF @ = CachedHandle(name) THEN StaleHandle(name, attributes[s][name])
        ELSE @]

\* --------------------------------------------------------- environment
Tick ==
    /\ now < MaxClock
    /\ now' = now + 1
    /\ UNCHANGED <<up, redis, attributes, last_modified, queue, connected,
                   caller, bg, pending, fresh, calls, stop_event, reached, removed, held>>

BackendDown ==
    /\ up
    /\ up' = FALSE
    /\ UNCHANGED <<now, redis, attributes, last_modified, queue, connected,
                   caller, bg, pending, fresh, calls, stop_event, reached, removed, held>>

BackendUp ==
    /\ ~up
    /\ up' = TRUE
    /\ UNCHANGED <<now, redis, attributes, last_modified, queue, connected,
                   caller, bg, pending, fresh, calls, stop_event, reached, removed, held>>

\* ------------------------------------------------------------------ set
\* __setattr__, then _set up to its connection attempt: the value is checked
\* with json.dumps, cached and stamped; with the backend down it is queued.
SetAttr(s, name, value) ==
    /\ Call(s)
    /\ UNCHANGED <<up, now, redis, connected, bg, stop_event, removed>>
    /\ reached' = IF Serializable(value) /\ up THEN Pinged(s) ELSE reached
    /\ IF ~Serializable(value)
       THEN /\ caller' = [caller EXCEPT ![s] =
                   Ret("set", name, value, "TypeError", PyNone)]
            /\ UNCHANGED <<attributes, last_modified, queue, pending, fresh,
                           held>>
       ELSE /\ attributes' = [attributes EXCEPT
                   ![s] = Put(@, name, wrap_sync(value, name))]
            /\ held' = Superseded(s, name)
            /\ last_modified' = [last_modified EXCEPT ![s] = Put(@, name, now)]
            /\ fresh' = Del(fresh, name)
            /\ IF up
               THEN /\ caller' = [caller EXCEPT ![s] =
                           [pc |-> "set_write", op |-> "set", name |-> name,
                            arg |-> value, payload |-> Payload(value, now)]]
                    /\ UNCHANGED <<queue, pending>>
               ELSE /\ Len(queue[s]) < MaxQueue
                    /\ queue' = [queue EXCEPT
                           ![s] = Enqueue(@, name, Payload(value, now))]
                    /\ pending' = [pending EXCEPT ![s] =
                           Put(@, name, [op |-> "set", payload |-> Payload(value, now)])]
                    /\ caller' = [caller EXCEPT ![s] =
                           Ret("set", name, value, "ok", PyNone)]

\* _set after the connection: client.set, which raises when the backend has
\* gone since the ping.
SetWrite(s) ==
    LET name == caller[s].name
        value == caller[s].arg
        payload == caller[s].payload
    IN  /\ caller[s].pc = "set_write"
        /\ UNCHANGED <<up, now, attributes, last_modified, queue, bg, calls,
                       stop_event, reached, held>>
        /\ IF up
           THEN /\ redis' = Put(redis, name, DumpsPayload(payload))
                /\ connected' = [connected EXCEPT ![s] = TRUE]
                /\ pending' = Forget(name)
                /\ fresh' = Put(fresh, name, [by |-> s, payload |-> payload])
                /\ removed' = Del(removed, name)
                /\ caller' = [caller EXCEPT ![s] =
                       Ret("set", name, value, "ok", PyNone)]
           ELSE /\ caller' = [caller EXCEPT ![s] =
                       Ret("set", name, value, "ConnectionError", PyNone)]
                /\ UNCHANGED <<redis, connected, pending, fresh, removed>>

\* ------------------------------------------------------------------ get
\* __getattr__ up to its connection attempt: with the backend down it falls
\* back to the local cache, where a value of None counts as missing.
GetAttr(s, name) ==
    /\ Call(s)
    /\ UNCHANGED <<up, now, redis, attributes, last_modified, queue, connected,
                   bg, pending, fresh, stop_event, removed, held>>
    /\ reached' = IF up THEN Pinged(s) ELSE reached
    /\ IF up
       THEN caller' = [caller EXCEPT ![s] = Within("get_read", "get", name, PyNone)]
       ELSE LET value == IF name \in DOMAIN attributes[s]
                         THEN attributes[s][name] ELSE PyNone
            IN  caller' = [caller EXCEPT ![s] =
                    IF value # PyNone
                    THEN Ret("get", name, PyNone, "ok", value)
                    ELSE Ret("get", name, PyNone, "AttributeError", PyNone)]

\* (mutant) a name the store holds keeps its cached value.
FetchedUnlessCached(s, name) ==
    IF name \in DOMAIN attributes[s]
    THEN attributes[s][name]
    ELSE wrap_sync(LoadsPayload(redis[name]).value, name)

\* The value __getattr__ caches and returns: the backend payload's, wrapped.
Fetched(s, name) == wrap_sync(LoadsPayload(redis[name]).value, name)

\* __getattr__ after the connection: client.get, then the cache is replaced
\* by the wrapped backend value and the backend timestamp. obj["value"] raises
\* TypeError on a text that is no object and KeyError on an object without
\* that key; obj["last_modified"] raises KeyError after the value is cached.
GetRead(s) ==
    LET name == caller[s].name
    IN  /\ caller[s].pc = "get_read"
        /\ UNCHANGED <<up, now, redis, queue, bg, pending, fresh, calls,
                       stop_event, reached, removed>>
        /\ IF ~up
           THEN /\ caller' = [caller EXCEPT ![s] =
                       Ret("get", name, PyNone, "ConnectionError", PyNone)]
                /\ UNCHANGED <<attributes, last_modified, connected, held>>
           ELSE IF name \notin DOMAIN redis
           THEN /\ caller' = [caller EXCEPT ![s] =
                       Ret("get", name, PyNone, "AttributeError", PyNone)]
                /\ UNCHANGED <<attributes, last_modified, connected, held>>
           ELSE IF IsEnvelope(redis[name])
           THEN LET obj == LoadsPayload(redis[name])
                    value == Fetched(s, name)
                IN  /\ connected' = [connected EXCEPT ![s] = TRUE]
                    /\ held' = Superseded(s, name)
                    /\ attributes' = [attributes EXCEPT ![s] = Put(@, name, value)]
                    /\ last_modified' = [last_modified EXCEPT
                           ![s] = Put(@, name, obj.last_modified)]
                    /\ caller' = [caller EXCEPT ![s] =
                           Ret("get", name, PyNone, "ok", value)]
           ELSE IF IsObject(redis[name]) /\ "value" \in DOMAIN redis[name].fields
           THEN /\ connected' = [connected EXCEPT ![s] = TRUE]
                /\ held' = Superseded(s, name)
                /\ attributes' = [attributes EXCEPT ![s] =
                       Put(@, name, wrap_sync(Loads(redis[name].fields.value), name))]
                /\ caller' = [caller EXCEPT ![s] =
                       Ret("get", name, PyNone, "KeyError", PyNone)]
                /\ UNCHANGED last_modified
           ELSE /\ connected' = [connected EXCEPT ![s] = TRUE]
                /\ caller' = [caller EXCEPT ![s] =
                       Ret("get", name, PyNone,
                           IF IsObject(redis[name]) THEN "KeyError"
                           ELSE "TypeError", PyNone)]
                /\ UNCHANGED <<attributes, last_modified, held>>

\* --------------------------------------------------------------- delete
\* __delattr__ up to its connection attempt: the name leaves the cache and
\* the index; with the backend down a deletion payload (value None) is queued
\* and the UnboundLocalError of the delete that follows is swallowed. (at: the
\* clock reading at the call, kept for the history removed.)
DelAttr(s, name) ==
    /\ Call(s)
    /\ UNCHANGED <<up, now, redis, connected, bg, stop_event, removed>>
    /\ reached' = IF name \in DOMAIN attributes[s] /\ up
                  THEN Pinged(s) ELSE reached
    /\ IF name \notin DOMAIN attributes[s]
       THEN /\ caller' = [caller EXCEPT ![s] =
                   Ret("delete", name, PyNone, "AttributeError", PyNone)]
            /\ UNCHANGED <<attributes, last_modified, queue, pending, fresh,
                           held>>
       ELSE /\ attributes' = [attributes EXCEPT ![s] = Del(@, name)]
            /\ last_modified' = [last_modified EXCEPT ![s] = Del(@, name)]
            /\ fresh' = Del(fresh, name)
            /\ held' = Superseded(s, name)
            /\ IF up
               THEN /\ caller' = [caller EXCEPT ![s] =
                           [pc |-> "del_delete", op |-> "delete", name |-> name,
                            arg |-> PyNone, at |-> now]]
                    /\ UNCHANGED <<queue, pending>>
               ELSE LET payload == Payload(PyNone, now)
                    IN  /\ Len(queue[s]) < MaxQueue
                        /\ queue' = [queue EXCEPT ![s] = Enqueue(@, name, payload)]
                        /\ pending' = [pending EXCEPT ![s] =
                               Put(@, name, [op |-> "delete", payload |-> payload])]
                        /\ caller' = [caller EXCEPT ![s] =
                               Ret("delete", name, PyNone, "ok", PyNone)]

\* __delattr__ after the connection: client.delete.
DelDelete(s) ==
    LET name == caller[s].name
    IN  /\ caller[s].pc = "del_delete"
        /\ UNCHANGED <<up, now, attributes, last_modified, queue, bg, calls,
                       stop_event, reached, held>>
        /\ IF up
           THEN /\ redis' = Del(redis, name)
                /\ connected' = [connected EXCEPT ![s] = TRUE]
                /\ pending' = Forget(name)
                /\ fresh' = Del(fresh, name)
                /\ removed' = Removal(name, caller[s].at)
                /\ caller' = [caller EXCEPT ![s] =
                       Ret("delete", name, PyNone, "ok", PyNone)]
           ELSE /\ caller' = [caller EXCEPT ![s] =
                       Ret("delete", name, PyNone, "ConnectionError", PyNone)]
                /\ UNCHANGED <<redis, connected, pending, fresh, removed>>

\* ----------------------------------------------------------------- sync
\* The timestamp _flush_queue compares with: 0 for a key the backend lacks
\* and for an object without "last_modified" (a text that is no object makes
\* the comparison raise, see FlushPop).
RedisTimestamp(name) ==
    IF name \in DOMAIN redis /\ IsObject(redis[name])
    THEN Timestamp(redis[name]) ELSE 0

\* _last_modified.get(name, 0)
LastModified(s, name) ==
    IF name \in DOMAIN last_modified[s] THEN last_modified[s][name] ELSE 0

\* (mutant) sync goes on with a name the store lacks, as with a null value.
SyncAttrUnguarded(s, name) ==
    LET payload == Payload(IF name \in DOMAIN attributes[s]
                           THEN attributes[s][name] ELSE PyNone,
                           LastModified(s, name))
    IN  /\ caller[s].pc = "idle"
        /\ Len(queue[s]) < MaxQueue
        /\ queue' = [queue EXCEPT ![s] = Enqueue(@, name, payload)]
        /\ caller' = [caller EXCEPT ![s] = Ret("sync", name, payload, "ok", PyNone)]
        /\ UNCHANGED <<up, now, redis, attributes, last_modified, connected, bg,
                       pending, fresh, calls, stop_event, reached, removed, held>>

\* sync of a name the store holds with the cached value local_value, up to
\* its connection attempt: the payload is the cached value (the container
\* itself) with the timestamp the index holds; with the backend down it is
\* queued. op tells an explicit call from one a container makes.
SyncFrom(s, op, name, local_value) ==
    LET payload == Payload(local_value, LastModified(s, name))
    IN  /\ fresh' = Del(fresh, name)
        /\ IF up
           THEN /\ caller' = [caller EXCEPT ![s] =
                       [pc |-> "sync_read", op |-> op, name |-> name,
                        arg |-> payload, payload |-> payload]]
                /\ reached' = Pinged(s)
                /\ UNCHANGED <<queue, pending>>
           ELSE /\ Len(queue[s]) < MaxQueue
                /\ queue' = [queue EXCEPT ![s] = Enqueue(@, name, payload)]
                /\ pending' = [pending EXCEPT ![s] =
                       Put(@, name, [op |-> "sync", payload |-> payload])]
                /\ caller' = [caller EXCEPT ![s] =
                       Ret(op, name, payload, "ok", PyNone)]
                /\ UNCHANGED reached

\* sync called by the caller: a name the store lacks raises.
SyncAttr(s, name) ==
    /\ caller[s].pc = "idle"
    /\ UNCHANGED <<up, now, redis, attributes, last_modified, connected, bg,
                   calls, stop_event, removed, held>>
    /\ IF name \notin DOMAIN attributes[s]
       THEN /\ caller' = [caller EXCEPT ![s] =
                   Ret("sync", name, PyNone, "AttributeError", PyNone)]
            /\ UNCHANGED <<queue, pending, fresh, reached>>
       ELSE SyncFrom(s, "sync", name, attributes[s][name])

\* An intercepted mutation (SyncedList.append / insert / extend,
\* SyncedDict.__setitem__ / update) of the container the store caches for
\* name, or of a tracking container nested in it at path: the list / dict
\* method runs, then the container calls sync on its parent with its key,
\* which through the parents reaches Memory.sync(name). A queued payload of
\* sync is the cached container itself; mutations are taken while nothing is
\* queued for the name, when no queued payload shares the container.
Mutate(s, name, path, mutation) ==
    /\ caller[s].pc = "idle"
    /\ name \in DOMAIN attributes[s]
    /\ path \in Paths(attributes[s][name])
    /\ mutation \in Mutations(At(attributes[s][name], path))
    /\ Size(Mutated(At(attributes[s][name], path), mutation)) <= MaxLen
    /\ \A i \in 1..Len(queue[s]) : queue[s][i][1] # name
    /\ LET container == Mutated(At(attributes[s][name], path), mutation)
           local_value == Replaced(attributes[s][name], path, container)
       IN  /\ attributes' = [attributes EXCEPT ![s] = Put(@, name, local_value)]
           /\ SyncFrom(s, "mutate", name, local_value)
    /\ UNCHANGED <<up, now, redis, last_modified, connected, bg, calls,
                   stop_event, removed, held>>

\* (mutant) the backend wins a tie.
LocalWinsStrictly(local_last_modified, redis_last_modified) ==
    local_last_modified > redis_last_modified

\* sync keeps the local value when its timestamp is not the smaller one.
LocalWins(local_last_modified, redis_last_modified) ==
    local_last_modified >= redis_last_modified

\* sync after the connection: client.get. A key the backend lacks, or has
\* with a timestamp that is not greater, is to be overwritten; otherwise the
\* backend's value (wrapped) and timestamp replace the local ones. obj.get
\* raises AttributeError on a text that is no object.
SyncRead(s) ==
    LET name == caller[s].name
        payload == caller[s].payload
    IN  /\ caller[s].pc = "sync_read"
        /\ UNCHANGED <<up, now, redis, queue, connected, bg, pending, fresh,
                       calls, stop_event, reached, removed>>
        /\ IF ~up
           THEN /\ caller' = [caller EXCEPT ![s] =
                       Ret(caller[s].op, name, payload, "ConnectionError", PyNone)]
                /\ UNCHANGED <<attributes, last_modified, held>>
           ELSE IF name \in DOMAIN redis /\ ~IsObject(redis[name])
           THEN /\ caller' = [caller EXCEPT ![s] =
                       Ret(caller[s].op, name, payload, "AttributeError", PyNone)]
                /\ UNCHANGED <<attributes, last_modified, held>>
           ELSE IF \/ name \notin DOMAIN redis
                   \/ LocalWins(payload.last_modified, RedisTimestamp(name))
           THEN /\ caller' = [caller EXCEPT ![s] = [@ EXCEPT !.pc = "sync_write"]]
                /\ UNCHANGED <<attributes, last_modified, held>>
           ELSE LET obj == LoadsPayload(redis[name])
                IN  /\ held' = Superseded(s, name)
                    /\ attributes' = [attributes EXCEPT
                           ![s] = Put(@, name, wrap_sync(obj.value, name))]
                    /\ last_modified' = [last_modified EXCEPT
                           ![s] = Put(@, name, obj.last_modified)]
                    /\ caller' = [caller EXCEPT ![s] =
                           Ret(caller[s].op, name, payload, "ok", PyNone)]

\* sync after the read: client.set of the local payload.
SyncWrite(s) ==
    LET name == caller[s].name
        payload == caller[s].payload
    IN  /\ caller[s].pc = "sync_write"
        /\ UNCHANGED <<up, now, attributes, last_modified, queue, bg, calls,
                       stop_event, reached, held>>
        /\ IF up
           THEN /\ redis' = Put(redis, name, DumpsPayload(payload))
                /\ connected' = [connected EXCEPT ![s] = TRUE]
                /\ pending' = Forget(name)
                /\ fresh' = Del(fresh, name)
                /\ removed' = Del(removed, name)
                /\ caller' = [caller EXCEPT ![s] =
                       Ret(caller[s].op, name, payload, "ok", PyNone)]
           ELSE /\ caller' = [caller EXCEPT ![s] =
                       Ret(caller[s].op, name, payload, "ConnectionError", PyNone)]
                /\ UNCHANGED <<redis, connected, pending, fresh, removed>>

\* --------------------------------------------------------------- detach
\* aslist / asdict of the container the store caches for name: no state of
\* the store is touched; the caller holds the result.
AsPlain(s, name) ==
    /\ caller[s].pc = "idle"
    /\ name \in DOMAIN attributes[s]
    /\ IsTracked(attributes[s][name])
    /\ caller' = [caller EXCEPT ![s] =
           [pc |-> "ret", op |-> "detach", name |-> name, arg |-> PyNone,
            out |-> "ok", value |-> Detached(attributes[s][name]),
            shared |-> SharedPaths(attributes[s][name])]]
    /\ UNCHANGED <<up, now, redis, attributes, last_modified, queue, connected,
                   bg, pending, fresh, calls, stop_event, reached, removed, held>>

\* The caller appends item to a list inside the value aslist / asdict
\* returned, with the plain list.append. Where that list is an object the
\* cached container holds too, the cached container shows the item as well.
MutateDetached(s, path, item) ==
    /\ caller[s].pc = "ret"
    /\ caller[s].op = "detach"
    /\ path \in PlainPaths(caller[s].value)
    /\ At(caller[s].value, path).t = "list"
    /\ Size(At(caller[s].value, path)) < MaxLen
    /\ LET name == caller[s].name
           list == [At(caller[s].value, path) EXCEPT !.items = Append(@, item)]
       IN  /\ caller' = [caller EXCEPT ![s] =
                  [@ EXCEPT !.value = Replaced(@, path, list)]]
           /\ attributes' = [attributes EXCEPT ![s] =
                  IF path \in caller[s].shared
                  THEN Put(@, name, Replaced(@[name], path, list))
                  ELSE @]
    /\ UNCHANGED <<up, now, redis, last_modified, queue, connected, bg, pending,
                   fresh, calls, stop_event, reached, removed, held>>

\* --------------------------------------------------------------- handles
\* The caller's code goes on after a get and keeps the container it returned,
\* which is the one the store caches.
Keep(s) ==
    /\ caller[s].pc = "ret"
    /\ caller[s].op = "get"
    /\ caller[s].out = "ok"
    /\ IsTracked(caller[s].value)
    /\ held' = [held EXCEPT ![s] = CachedHandle(caller[s].name)]
    /\ caller' = [caller EXCEPT ![s] = Idle]
    /\ UNCHANGED <<up, now, redis, attributes, last_modified, queue, connected,
                   bg, pending, fresh, calls, stop_event, reached, removed>>

\* An intercepted mutation of a container the caller holds from an earlier
\* get and the store no longer caches, or of a tracking container nested in
\* it at path: the list / dict method changes the held container, then sync
\* is called on its parents up to Memory.sync(name), which takes the value
\* the store caches now (and raises for a name the store lacks).
MutateHeld(s, path, mutation) ==
    /\ caller[s].pc = "idle"
    /\ held[s].kind = "stale"
    /\ path \in Paths(held[s].value)
    /\ mutation \in Mutations(At(held[s].value, path))
    /\ Size(Mutated(At(held[s].value, path), mutation)) <= MaxLen
    /\ LET name == held[s].name
           container == Mutated(At(held[s].value, path), mutation)
       IN  /\ held' = [held EXCEPT ![s] =
                  StaleHandle(name, Replaced(held[s].value, path, container))]
           /\ IF name \notin DOMAIN attributes[s]
              THEN /\ caller' = [caller EXCEPT ![s] =
                          Ret("stale", name, PyNone, "AttributeError", PyNone)]
                   /\ UNCHANGED <<queue, pending, fresh, reached>>
              ELSE SyncFrom(s, "stale", name, attributes[s][name])
    /\ UNCHANGED <<up, now, redis, attributes, last_modified, connected, bg,
                   calls, stop_event, removed>>

\* The caller's code goes on after the call.
Return(s) ==
    /\ caller[s].pc = "ret"
    /\ caller' = [caller EXCEPT ![s] = Idle]
    /\ UNCHANGED <<up, now, redis, attributes, last_modified, queue, connected,
                   bg, pending, fresh, calls, stop_event, reached, removed, held>>

\* ------------------------------------------------- background flush loop
\* _background_flush_loop: while the stop event is not set, with the queue
\* non-empty it calls _flush_queue.
BgWake(s) ==
    /\ bg[s].pc = "loop"
    /\ ~stop_event[s]
    /\ queue[s] # <<>>
    /\ bg' = [bg EXCEPT ![s] = [pc |-> "flush_connect"]]
    /\ UNCHANGED <<up, now, redis, attributes, last_modified, queue, connected,
                   caller, pending, fresh, calls, stop_event, reached, removed, held>>

\* _flush_queue's first loop: it retries every second until a ping succeeds.
FlushConnect(s) ==
    /\ bg[s].pc = "flush_connect"
    /\ up
    /\ bg' = [bg EXCEPT ![s] = [pc |-> "flush_pop"]]
    /\ reached' = Pinged(s)
    /\ UNCHANGED <<up, now, redis, attributes, last_modified, queue, connected,
                   caller, pending, fresh, calls, stop_event, removed, held>>

\* (mutant) an entry with the backend's own timestamp is skipped too.
NewerOrEqual(redis_timestamp, queued_timestamp) ==
    redis_timestamp >= queued_timestamp

\* _flush_queue skips an entry the backend has a later timestamp for.
Newer(redis_timestamp, queued_timestamp) == redis_timestamp > queued_timestamp

\* _flush_queue's second loop, one turn up to the comparison: the head entry
\* is popped and the backend's entry read; an entry the backend has a later
\* timestamp for is skipped. With the queue empty the drain returns to
\* _background_flush_loop. An exception of client.get, or of obj.get on a
\* stored text that is no object, leaves _flush_queue and the thread's loop:
\* the thread ends, the popped entry is gone.
FlushPop(s) ==
    /\ bg[s].pc = "flush_pop"
    /\ UNCHANGED <<up, now, redis, attributes, last_modified, connected, caller,
                   fresh, calls, stop_event, reached, removed, held>>
    /\ IF queue[s] = <<>>
       THEN /\ bg' = [bg EXCEPT ![s] = [pc |-> "loop"]]
            /\ UNCHANGED <<queue, pending>>
       ELSE LET key == Head(queue[s])[1]
                payload == Head(queue[s])[2]
            IN  /\ queue' = [queue EXCEPT ![s] = Tail(@)]
                /\ IF ~up \/ (key \in DOMAIN redis /\ ~IsObject(redis[key]))
                   THEN /\ bg' = [bg EXCEPT ![s] = [pc |-> "dead"]]
                        /\ pending' = [pending EXCEPT ![s] = EmptyDict]
                   ELSE /\ bg' = [bg EXCEPT ![s] =
                               IF Newer(RedisTimestamp(key), payload.last_modified)
                               THEN [pc |-> "flush_pop"]
                               ELSE [pc |-> "flush_apply", key |-> key,
                                     payload |-> payload]]
                        /\ UNCHANGED pending

\* (mutant) the deletion payload is written like any other.
AppliedAsWrite(key, payload) == Put(redis, key, DumpsPayload(payload))

\* The backend after _flush_queue applies an entry: client.delete for a value
\* of None, client.set of the payload's JSON text otherwise.
Applied(key, payload) ==
    IF payload.value = PyNone
    THEN Del(redis, key)
    ELSE Put(redis, key, DumpsPayload(payload))

\* The history removed after the same: the deletion is recorded, a write
\* ends the key's absence.
AppliedRemoval(key, payload) ==
    IF payload.value = PyNone
    THEN Removal(key, payload.last_modified)
    ELSE Del(removed, key)

\* The same turn after the comparison: the entry is applied. An exception of
\* client.delete or client.set ends the thread as one of client.get does.
FlushApply(s) ==
    LET key == bg[s].key
        payload == bg[s].payload
    IN  /\ bg[s].pc = "flush_apply"
        /\ UNCHANGED <<up, now, attributes, last_modified, queue, caller, calls,
                       stop_event, reached, held>>
        /\ IF ~up
           THEN /\ bg' = [bg EXCEPT ![s] = [pc |-> "dead"]]
                /\ pending' = [pending EXCEPT ![s] = EmptyDict]
                /\ UNCHANGED <<redis, connected, fresh, removed>>
           ELSE /\ redis' = Applied(key, payload)
                /\ removed' = AppliedRemoval(key, payload)
                /\ connected' = [connected EXCEPT ![s] = TRUE]
                /\ bg' = [bg EXCEPT ![s] = [pc |-> "flush_pop"]]
                /\ fresh' = Del(fresh, key)
                /\ pending' = [t \in Stores |->
                                  IF t = s THEN pending[t] ELSE Del(pending[t], key)]

\* _background_flush_loop's test of the stop event: once it is set the loop,
\* and with it the thread, ends.
BgStop(s) ==
    /\ bg[s].pc = "loop"
    /\ stop_event[s]
    /\ bg' = [bg EXCEPT ![s] = [pc |-> "stopped"]]
    /\ UNCHANGED <<up, now, redis, attributes, last_modified, queue, connected,
                   caller, pending, fresh, calls, stop_event, reached, removed, held>>

\* --------------------------------------------------------- construction
\* __init__ up to the connection attempt of _load_from_redis: the background
\* thread is started; with the backend down the store is ready, empty.
Construct(s) ==
    /\ caller[s].pc = "new"
    /\ bg' = [bg EXCEPT ![s] = [pc |-> "loop"]]
    /\ caller' = [caller EXCEPT ![s] =
           IF up THEN [pc |-> "load_scan", op |-> "init"] ELSE Idle]
    /\ reached' = IF up THEN Pinged(s) ELSE reached
    /\ UNCHANGED <<up, now, redis, attributes, last_modified, queue, connected,
                   pending, fresh, calls, stop_event, removed, held>>

\* client.scan_iter(match=prefix*): the keys under the prefix. An exception
\* ends the preload with a warning.
LoadScan(s) ==
    /\ caller[s].pc = "load_scan"
    /\ caller' = [caller EXCEPT ![s] =
           IF up THEN [pc |-> "load_key", op |-> "init", keys |-> DOMAIN redis]
           ELSE Idle]
    /\ UNCHANGED <<up, now, redis, attributes, last_modified, queue, connected,
                   bg, pending, fresh, calls, stop_event, reached, removed, held>>

\* (mutant) the preload records no timestamp.
PreloadedUnstamped(doc) == [value |-> Loads(doc.fields.value), last_modified |-> 0]

\* What _load_from_redis takes from a stored text: obj["value"] and
\* obj["last_modified"].
Preloaded(doc) == LoadsPayload(doc)

\* One turn of _load_from_redis's loop: client.get of a scanned key; the value
\* (not wrapped) and the timestamp are stored; of a text without the envelope
\* the whole object is stored and no timestamp. A key that fails to load (the
\* backend is gone, or the key is) is skipped with a warning. After the last
\* key the store is ready.
LoadKey(s) ==
    /\ caller[s].pc = "load_key"
    /\ UNCHANGED <<up, now, redis, queue, bg, pending, fresh, calls, stop_event,
                   reached, removed, held>>
    /\ IF caller[s].keys = {}
       THEN /\ caller' = [caller EXCEPT ![s] = Idle]
            /\ UNCHANGED <<attributes, last_modified, connected>>
       ELSE \E name \in caller[s].keys :
              /\ caller' = [caller EXCEPT ![s] =
                     [@ EXCEPT !.keys = @ \ {name}]]
              /\ IF up /\ name \in DOMAIN redis
                 THEN IF IsEnvelope(redis[name])
                      THEN LET obj == Preloaded(redis[name])
                           IN  /\ attributes' = [attributes EXCEPT
                                      ![s] = Put(@, name, obj.value)]
                               /\ last_modified' = [last_modified EXCEPT
                                      ![s] = Put(@, name, obj.last_modified)]
                               /\ connected' = [connected EXCEPT ![s] = TRUE]
                      ELSE /\ attributes' = [attributes EXCEPT
                                  ![s] = Put(@, name, Loads(redis[name]))]
                           /\ connected' = [connected EXCEPT ![s] = TRUE]
                           /\ UNCHANGED last_modified
                 ELSE UNCHANGED <<attributes, last_modified, connected>>

\* ------------------------------------------------------------- teardown
\* The caller enters __exit__.
Exit(s) ==
    /\ caller[s].pc = "idle"
    /\ caller' = [caller EXCEPT ![s] = [pc |-> "exit_connect", op |-> "exit"]]
    /\ UNCHANGED <<up, now, redis, attributes, last_modified, queue, connected,
                   bg, pending, fresh, calls, stop_event, reached, removed, held>>

\* __exit__ is back in the caller's code: it returned, or raised (out).
Closed(out) == [pc |-> "closed", op |-> "exit", out |-> out]

\* __exit__'s loop: it waits for a ping to succeed, but returns at once from
\* a failed ping when the flag _is_connected_to_redis_at_least_once is not
\* set. After the ping it drains a non-empty queue, then stops the thread.
ExitConnect(s) ==
    /\ caller[s].pc = "exit_connect"
    /\ up \/ ~connected[s]
    /\ caller' = [caller EXCEPT ![s] =
           IF ~up THEN Closed("ok")
           ELSE IF queue[s] # <<>>
           THEN [pc |-> "exit_flush_connect", op |-> "exit"]
           ELSE [pc |-> "exit_stop", op |-> "exit"]]
    /\ reached' = IF up THEN Pinged(s) ELSE reached
    /\ UNCHANGED <<up, now, redis, attributes, last_modified, queue, connected,
                   bg, pending, fresh, calls, stop_event, removed, held>>

\* _flush_queue called by __exit__: its first loop.
ExitFlushConnect(s) ==
    /\ caller[s].pc = "exit_flush_connect"
    /\ up
    /\ caller' = [caller EXCEPT ![s] = [pc |-> "exit_flush_pop", op |-> "exit"]]
    /\ reached' = Pinged(s)
    /\ UNCHANGED <<up, now, redis, attributes, last_modified, queue, connected,
                   bg, pending, fresh, calls, stop_event, removed, held>>

\* _flush_queue called by __exit__, one turn up to the comparison; it shares
\* the queue with the background thread's drain (the test of the queue and
\* pop(0) are taken as one step). An exception of client.get leaves __exit__.
ExitFlushPop(s) ==
    /\ caller[s].pc = "exit_flush_pop"
    /\ UNCHANGED <<up, now, redis, attributes, last_modified, connected, bg,
                   fresh, calls, stop_event, reached, removed, held>>
    /\ IF queue[s] = <<>>
       THEN /\ caller' = [caller EXCEPT ![s] = [pc |-> "exit_stop", op |-> "exit"]]
            /\ UNCHANGED <<queue, pending>>
       ELSE LET key == Head(queue[s])[1]
                payload == Head(queue[s])[2]
            IN  /\ queue' = [queue EXCEPT ![s] = Tail(@)]
                /\ IF ~up \/ (key \in DOMAIN redis /\ ~IsObject(redis[key]))
                   THEN /\ caller' = [caller EXCEPT ![s] =
                               Closed(IF up THEN "AttributeError"
                                      ELSE "ConnectionError")]
                        /\ pending' = [pending EXCEPT ![s] = EmptyDict]
                   ELSE /\ caller' = [caller EXCEPT ![s] =
                               IF Newer(RedisTimestamp(key), payload.last_modified)
                               THEN [pc |-> "exit_flush_pop", op |-> "exit"]
                               ELSE [pc |-> "exit_flush_apply", op |-> "exit",
                                     key |-> key, payload |-> payload]]
                        /\ UNCHANGED pending

\* The same turn after the comparison.
ExitFlushApply(s) ==
    LET key == caller[s].key
        payload == caller[s].payload
    IN  /\ caller[s].pc = "exit_flush_apply"
        /\ UNCHANGED <<up, now, attributes, last_modified, queue, bg, calls,
                       stop_event, reached, held>>
        /\ IF ~up
           THEN /\ caller' = [caller EXCEPT ![s] = Closed("ConnectionError")]
                /\ pending' = [pending EXCEPT ![s] = EmptyDict]
                /\ UNCHANGED <<redis, connected, fresh, removed>>
           ELSE /\ redis' = Applied(key, payload)
                /\ removed' = AppliedRemoval(key, payload)
                /\ connected' = [connected EXCEPT ![s] = TRUE]
                /\ caller' = [caller EXCEPT ![s] =
                       [pc |-> "exit_flush_pop", op |-> "exit"]]
                /\ fresh' = Del(fresh, key)
                /\ pending' = [t \in Stores |->
                                  IF t = s THEN pending[t] ELSE Del(pending[t], key)]

\* stop_background_flush: the stop event is set.
ExitStop(s) ==
    /\ caller[s].pc = "exit_stop"
    /\ stop_event' = [stop_event EXCEPT ![s] = TRUE]
    /\ caller' = [caller EXCEPT ![s] = [pc |-> "exit_join", op |-> "exit"]]
    /\ UNCHANGED <<up, now, redis, attributes, last_modified, queue, connected,
                   bg, pending, fresh, calls, reached, removed, held>>

\* stop_background_flush: _thread.join() returns once the thread has ended.
ExitJoin(s) ==
    /\ caller[s].pc = "exit_join"
    /\ bg[s].pc \in {"stopped", "dead"}
    /\ caller' = [caller EXCEPT ![s] = Closed("ok")]
    /\ UNCHANGED <<up, now, redis, attributes, last_modified, queue, connected,
                   bg, pending, fresh, calls, stop_event, reached, removed, held>>

\* ------------------------------------------------------- specifications
\* A caller that assigns and deletes.
Writer(s, names, values) ==
    \/ \E n \in names, v \in values : SetAttr(s, n, v)
    \/ SetWrite(s)
    \/ \E n \in names : DelAttr(s, n)
    \/ DelDelete(s)

\* A caller that reads.
Reader(s, names) ==
    \/ \E n \in names : GetAttr(s, n)
    \/ GetRead(s)

Caller(s, names, values) ==
    \/ Writer(s, names, values)
    \/ Reader(s, names)
    \/ Return(s)

\* A caller that reconciles.
Syncer(s, names) ==
    \/ \E n \in names : SyncAttr(s, n)
    \/ SyncRead(s)
    \/ SyncWrite(s)

\* A caller that mutates the containers the store caches, with the syncs
\* they set off.
Mutator(s, names) ==
    \/ \E n \in names :
          \E path \in Paths(IF n \in DOMAIN attributes[s]
                            THEN attributes[s][n] ELSE PyNone) :
             \E mutation \in Mutations(At(attributes[s][n], path)) :
                Mutate(s, n, path, mutation)
    \/ SyncRead(s)
    \/ SyncWrite(s)

\* A caller that detaches the containers the store caches and works on the
\* detached values.
Detacher(s, names) ==
    \/ \E n \in names : AsPlain(s, n)
    \/ \E path \in PlainPaths(IF caller[s].pc = "ret" /\ caller[s].op = "detach"
                                THEN caller[s].value ELSE PyNone) :
          MutateDetached(s, path, PyInt(2))

\* A caller that keeps the containers get returns and mutates them after the
\* store has replaced them in its cache, with the syncs they set off.
Holder(s) ==
    \/ Keep(s)
    \/ \E path \in Paths(IF held[s].kind = "stale" THEN held[s].value ELSE PyNone) :
          \E mutation \in Mutations(At(held[s].value, path)) :
             MutateHeld(s, path, mutation)
    \/ SyncRead(s)
    \/ SyncWrite(s)

\* The construction of a store, with its preload.
Constructor(s) ==
    \/ Construct(s)
    \/ LoadScan(s)
    \/ LoadKey(s)

\* The teardown of a store.
Teardown(s) ==
    \/ Exit(s)
    \/ ExitConnect(s)
    \/ ExitFlushConnect(s)
    \/ ExitFlushPop(s)
    \/ ExitFlushApply(s)
    \/ ExitStop(s)
    \/ ExitJoin(s)

Background(s) ==
    \/ BgWake(s)
    \/ FlushConnect(s)
    \/ FlushPop(s)
    \/ FlushApply(s)

Environment ==
    \/ Tick
    \/ BackendDown
    \/ BackendUp

\* Two stores on one backend and one prefix, sharing the name x.
Next ==
    \/ Environment
    \/ \E s \in Stores : Caller(s, {"x"}, Values)
    \/ \E s \in Stores : Background(s)

Spec == Init /\ [][Next]_vars

\* One store, no other writer, two names.
NextSingle ==
    \/ Environment
    \/ Caller("A", Names, Values)
    \/ Background("A")

SpecSingle == Init /\ [][NextSingle]_vars

\* A store that assigns every kind of value to x and a second store on the
\* same backend and prefix that reads x.
NextShare ==
    \/ Environment
    \/ Caller("A", {"x"}, MoreValues)
    \/ Reader("B", {"x"})
    \/ Return("B")
    \/ \E s \in Stores : Background(s)

SpecShare == Init /\ [][NextShare]_vars

\* One store whose background thread is scheduled again and again, as the
\* operating system schedules a runnable thread.
NextLive ==
    \/ Environment
    \/ Caller("A", {"x"}, {PyNone, PyInt(0)})
    \/ Background("A")

SpecLive == Init /\ [][NextLive]_vars /\ WF_vars(Background("A"))

\* A store that assigns, deletes and reconciles x, and a second store on the
\* same backend and prefix that assigns x.
NextSync ==
    \/ Environment
    \/ Writer("A", {"x"}, {PyList(<<PyInt(1)>>)})
    \/ Syncer("A", {"x"})
    \/ Return("A")
    \/ SetAttr("B", "x", PyInt(1))
    \/ SetWrite("B")
    \/ Return("B")
    \/ Background("A")

SpecSync == Init /\ [][NextSync]_vars

\* One store, no other writer, a backend that stays reachable: structured
\* values are assigned and mutated in place.
InitReachable == Init /\ up

NextMutate ==
    \/ Tick
    \/ \E v \in Containers : SetAttr("A", "x", v)
    \/ SetWrite("A")
    \/ Return("A")
    \/ Mutator("A", {"x"})

SpecMutate == InitReachable /\ [][NextMutate]_vars

\* The same store and backend: the cached containers are mutated, detached,
\* and the detached values are worked on.
NextDetach ==
    \/ \E v \in Containers : SetAttr("A", "x", v)
    \/ SetWrite("A")
    \/ Return("A")
    \/ Mutator("A", {"x"})
    \/ Detacher("A", {"x"})

SpecDetach == InitReachable /\ [][NextDetach]_vars

\* The life of a store from its construction to its teardown, next to a
\* second store that is constructed on the same backend and prefix.
InitLife ==
    /\ up \in BOOLEAN
    /\ now = 1
    /\ redis = EmptyDict
    /\ attributes = [s \in Stores |-> EmptyDict]
    /\ last_modified = [s \in Stores |-> EmptyDict]
    /\ queue = [s \in Stores |-> <<>>]
    /\ connected = [s \in Stores |-> FALSE]
    /\ caller = [s \in Stores |-> [pc |-> "new"]]
    /\ bg = [s \in Stores |-> [pc |-> "none"]]
    /\ pending = [s \in Stores |-> EmptyDict]
    /\ fresh = EmptyDict
    /\ calls = 0
    /\ stop_event = [s \in Stores |-> FALSE]
    /\ reached = [s \in Stores |-> FALSE]
    /\ removed = EmptyTimes
    /\ held = [s \in Stores |-> NoHandle]

NextLife ==
    \/ Environment
    \/ \E s \in Stores : Constructor(s)
    \/ Writer("A", {"x"}, {PyInt(0), PyList(<<PyInt(1)>>)})
    \/ Return("A")
    \/ Teardown("A")
    \/ Background("A")
    \/ BgStop("A")

SpecLife == InitLife /\ [][NextLife]_vars

\* A store that assigns and reconciles x and a second store that assigns x;
\* neither deletes.
NextMono ==
    \/ Environment
    \/ SetAttr("A", "x", PyInt(0))
    \/ SetWrite("A")
    \/ Syncer("A", {"x"})
    \/ Return("A")
    \/ Background("A")
    \/ SetAttr("B", "x", PyInt(1))
    \/ SetWrite("B")
    \/ Return("B")
    \/ Background("B")

SpecMono == Init /\ [][NextMono]_vars

\* Stores constructed on a backend that holds x, a list written at time 1 by
\* an earlier run.
InitStored ==
    /\ up \in BOOLEAN
    /\ now = 1
    /\ redis = [n \in {"x"} |-> DumpsPayload(Payload(PyList(<<PyInt(1)>>), 1))]
    /\ attributes = [s \in Stores |-> EmptyDict]
    /\ last_modified = [s \in Stores |-> EmptyDict]
    /\ queue = [s \in Stores |-> <<>>]
    /\ connected = [s \in Stores |-> FALSE]
    /\ caller = [s \in Stores |-> [pc |-> "new"]]
    /\ bg = [s \in Stores |-> [pc |-> "none"]]
    /\ pending = [s \in Stores |-> EmptyDict]
    /\ fresh = EmptyDict
    /\ calls = 0
    /\ stop_event = [s \in Stores |-> FALSE]
    /\ reached = [s \in Stores |-> FALSE]
    /\ removed = EmptyTimes
    /\ held = [s \in Stores |-> NoHandle]

\* A store that deletes x and a second store that assigns x, each with its
\* background thread.
NextUndo ==
    \/ Environment
    \/ \E s \in Stores : Constructor(s)
    \/ DelAttr("A", "x")
    \/ DelDelete("A")
    \/ SetAttr("B", "x", PyInt(0))
    \/ SetWrite("B")
    \/ \E s \in Stores : Return(s)
    \/ \E s \in Stores : Background(s)

SpecUndo == InitStored /\ [][NextUndo]_vars

\* One store, no other writer, a backend that holds x: the store reads x
\* again and again, and the caller keeps what it got.
NextHandle ==
    \/ Environment
    \/ Constructor("A")
    \/ Reader("A", {"x"})
    \/ Return("A")
    \/ Holder("A")

SpecHandle == InitStored /\ [][NextHandle]_vars

\* A store constructed on a backend that holds, under x, a text without the
\* envelope; the store then reads, assigns, deletes and reconciles x.
InitLegacy ==
    /\ up \in BOOLEAN
    /\ now = 1
    /\ redis \in { [n \in {"x"} |-> doc] : doc \in LegacyDocs }
    /\ attributes = [s \in Stores |-> EmptyDict]
    /\ last_modified = [s \in Stores |-> EmptyDict]
    /\ queue = [s \in Stores |-> <<>>]
    /\ connected = [s \in Stores |-> FALSE]
    /\ caller = [s \in Stores |-> [pc |-> "new"]]
    /\ bg = [s \in Stores |-> [pc |-> "none"]]
    /\ pending = [s \in Stores |-> EmptyDict]
    /\ fresh = EmptyDict
    /\ calls = 0
    /\ stop_event = [s \in Stores |-> FALSE]
    /\ reached = [s \in Stores |-> FALSE]
    /\ removed = EmptyTimes
    /\ held = [s \in Stores |-> NoHandle]

NextLegacy ==
    \/ Environment
    \/ Constructor("A")
    \/ Caller("A", {"x"}, {PyInt(1)})
    \/ Syncer("A", {"x"})
    \/ Background("A")

SpecLegacy == InitLegacy /\ [][NextLegacy]_vars

\* ================================================================ claims
\* The caller thread of s has just come back from a call that took one step.
ReturnsAtOnce(s, op) ==
    /\ caller[s].pc = "idle"
    /\ caller'[s].pc = "ret"
    /\ caller'[s].op = op

\* Store s's get has just read the backend, which answered.
ReadsBackend(s) ==
    /\ caller[s].pc = "get_read"
    /\ caller'[s].pc = "ret"
    /\ up

\* A value json.loads(json.dumps(v)) gives back equal to v: null, numbers and
\* lists of such; a tuple comes back as a list.
RECURSIVE JsonExact(_)
JsonExact(v) ==
    \/ v.t \in {"None", "int"}
    \/ /\ v.t \in {"list", "SyncedList"}
       /\ \A i \in 1..Len(v.items) : JsonExact(v.items[i])
    \/ /\ IsMapping(v)
       /\ \A k \in DOMAIN v.fields : JsonExact(v.fields[k])

\* What C1 promises of a get by store b that reads name n from the backend
\* while n's last write is the completed set fresh[n] of another store.
RoundTrip(b, n) ==
    /\ caller'[b].out = "ok"
    /\ PyEq(caller'[b].value, fresh[n].payload.value)
    /\ n \in DOMAIN last_modified'[b]
    /\ last_modified'[b][n] = redis[n].fields.last_modified
    /\ last_modified'[b][n] = last_modified[fresh[n].by][n]

\* C1 (as stated): with the backend reachable, after store A's set(name, v)
\* of any serializable v has completed and no other write of name intervened,
\* get(name) on a second store returns v, and that store's last_modified for
\* name equals the backend payload's, which equals A's.
C1_RoundTripAnyValue ==
    [][\A b \in Stores :
        (/\ ReadsBackend(b)
         /\ caller[b].name \in DOMAIN fresh
         /\ fresh[caller[b].name].by # b)
        => RoundTrip(b, caller[b].name)]_vars

\* C1 (amended): the same for every v that JSON represents exactly (null,
\* numbers, lists of such); a tuple is returned as a list.
C1_RoundTrip ==
    [][\A b \in Stores :
        (/\ ReadsBackend(b)
         /\ caller[b].name \in DOMAIN fresh
         /\ fresh[caller[b].name].by # b
         /\ JsonExact(fresh[caller[b].name].payload.value))
        => RoundTrip(b, caller[b].name)]_vars

\* B has read back the list A assigned, with A's timestamp.
C1_Witness ==
    /\ caller["B"].pc = "ret"
    /\ caller["B"].op = "get"
    /\ caller["B"].out = "ok"
    /\ caller["B"].value = SyncedList(<<PyInt(1)>>, "x")
    /\ "x" \in DOMAIN fresh
    /\ fresh["x"].by = "A"
    /\ fresh["x"].payload.value = PyList(<<PyInt(1)>>)
    /\ last_modified["B"]["x"] = last_modified["A"]["x"]
    /\ last_modified["B"]["x"] = MaxClock

\* C2: set(name, v) while the backend is unreachable returns normally, leaves
\* attributes[name] = v and last_modified[name] = ts, and appends exactly the
\* entry (name, {value: v, last_modified: ts}) at the tail of the queue, the
\* entries queued before staying in place and in order.
C2_QueuedSet ==
    [][\A s \in Stores :
        (ReturnsAtOnce(s, "set") /\ ~up /\ Serializable(caller'[s].arg))
        => LET n == caller'[s].name
               v == caller'[s].arg
           IN  /\ caller'[s].out = "ok"
               /\ n \in DOMAIN attributes'[s]
               /\ PyEq(attributes'[s][n], v)
               /\ last_modified'[s][n] = now
               /\ queue'[s] = Append(queue[s], <<n, Payload(v, now)>>)]_vars

\* A has queued a second write of x behind the first.
C2_Witness ==
    /\ ~up
    /\ caller["A"].pc = "ret"
    /\ caller["A"].op = "set"
    /\ caller["A"].out = "ok"
    /\ Len(queue["A"]) = 2
    /\ queue["A"][1][1] = "x"
    /\ queue["A"][2] = <<"x", Payload(caller["A"].arg, last_modified["A"]["x"])>>
    /\ queue["A"][1][2].value # queue["A"][2][2].value

\* Store s's drain returns to the background loop with the queue empty.
DrainCompletes(s) ==
    /\ bg[s].pc = "flush_pop"
    /\ bg'[s].pc = "loop"

\* C3: for a single store with no other writer, once set calls on a name
\* were queued during an outage and a drain completes, the backend holds for
\* that name the value and the timestamp of the last entry queued for it.
C3_LastQueuedWins ==
    [][\A s \in Stores :
        DrainCompletes(s)
        => \A n \in DOMAIN pending[s] :
              pending[s][n].op = "set"
              => /\ n \in DOMAIN redis'
                 /\ redis'[n] = DumpsPayload(pending[s][n].payload)]_vars

\* C4: a drain whose backend read and write are answered discards a queued
\* entry, leaving the backend as it is, exactly when the backend's
\* last_modified for the key is strictly greater than the entry's; otherwise
\* (equal, smaller, key absent) it applies the entry: the key is deleted for
\* a deletion entry, and set to the entry's payload for any other.
C4_DrainDecision ==
    [][\A s \in Stores :
        /\ (bg[s].pc = "flush_pop" /\ up /\ Len(queue'[s]) < Len(queue[s]))
           => LET key == Head(queue[s])[1]
                  payload == Head(queue[s])[2]
              IN  IF RedisTimestamp(key) > payload.last_modified
                  THEN bg'[s] = [pc |-> "flush_pop"] /\ redis' = redis
                  ELSE bg'[s] = [pc |-> "flush_apply", key |-> key,
                                 payload |-> payload]
        /\ (bg[s].pc = "flush_apply" /\ up /\ bg'[s] # bg[s])
           => redis' = IF bg[s].payload.value = PyNone
                       THEN Del(redis, bg[s].key)
                       ELSE Put(redis, bg[s].key, DumpsPayload(bg[s].payload))]_vars

\* A drain is about to take an entry the backend has a later timestamp for.
C4_Witness ==
    \E s \in Stores :
        /\ bg[s].pc = "flush_pop"
        /\ up
        /\ queue[s] # <<>>
        /\ Head(queue[s])[1] \in DOMAIN redis
        /\ RedisTimestamp(Head(queue[s])[1]) > Head(queue[s])[2].last_modified

\* C5: delete(name) while the backend is unreachable, for a name the store
\* holds, queues one entry whose value is the deletion sentinel None; once the
\* backend is back and a drain completes, the backend has no key for name.
C5_QueuedDelete ==
    [][\A s \in Stores :
        /\ (ReturnsAtOnce(s, "delete") /\ ~up
                /\ caller'[s].name \in DOMAIN attributes[s])
           => /\ caller'[s].out = "ok"
              /\ queue'[s] = Append(queue[s],
                                    <<caller'[s].name, Payload(PyNone, now)>>)
        /\ DrainCompletes(s)
           => \A n \in DOMAIN pending[s] :
                 pending[s][n].op = "delete" => n \notin DOMAIN redis']_vars

\* A drain is about to apply a queued deletion to a key the backend holds
\* with an older timestamp.
C5_Witness ==
    \E s \in Stores :
        /\ bg[s].pc = "flush_apply"
        /\ up
        /\ bg[s].payload.value = PyNone
        /\ bg[s].key \in DOMAIN redis
        /\ bg[s].key \in DOMAIN pending[s]
        /\ pending[s][bg[s].key].op = "delete"
        /\ RedisTimestamp(bg[s].key) < bg[s].payload.last_modified

\* C6: once the backend stays reachable, the background flush loop alone
\* empties the queue in the end, whatever the backend did before, a failure
\* in the middle of an earlier drain included.
C6_EventualDelivery == <>[]up => <>[](queue["A"] = <<>>)

\* C7: with the backend unreachable, get(name) returns attributes[name] for
\* every name the local attributes hold, whatever the value, fails with
\* AttributeError only for a name they lack, and changes no state.
C7_FallbackToCache ==
    [][\A s \in Stores :
        (ReturnsAtOnce(s, "get") /\ ~up)
        => LET n == caller'[s].name
           IN  /\ IF n \in DOMAIN attributes[s]
                  THEN /\ caller'[s].out = "ok"
                       /\ caller'[s].value = attributes[s][n]
                  ELSE caller'[s].out = "AttributeError"
               /\ UNCHANGED <<redis, attributes, last_modified, queue,
                              connected>>]_vars

\* C8: with the backend reachable the backend alone decides get(name): a key
\* it lacks fails with AttributeError even when the store holds name locally;
\* a key it has returns the payload's value, and attributes[name] and
\* last_modified[name] become that value and the payload's timestamp.
C8_BackendDecidesGet ==
    [][\A s \in Stores :
        ReadsBackend(s)
        => LET n == caller[s].name
           IN  IF n \notin DOMAIN redis
               THEN /\ caller'[s].out = "AttributeError"
                    /\ attributes'[s] = attributes[s]
               ELSE /\ caller'[s].out = "ok"
                    /\ PyEq(caller'[s].value, Loads(redis[n].fields.value))
                    /\ attributes'[s][n] = caller'[s].value
                    /\ last_modified'[s][n] = redis[n].fields.last_modified]_vars

\* A get failed on a key the backend lacks although the store holds the name.
C8_Witness ==
    \E s \in Stores :
        /\ caller[s].pc = "ret"
        /\ caller[s].op = "get"
        /\ caller[s].out = "AttributeError"
        /\ caller[s].name \in DOMAIN attributes[s]
        /\ attributes[s][caller[s].name] # PyNone
        /\ caller[s].name \notin DOMAIN redis

\* C9: no backend failure reaches the caller of get, set or delete, at the
\* connection attempt or at any later step of the call.
C9_BackendFailureAbsorbed ==
    \A s \in Stores :
        caller[s].pc = "ret" => caller[s].out \in {"ok", "AttributeError", "TypeError"}

\* C10: set(name, value) with a value json cannot encode raises to the caller
\* and leaves attributes, last_modified, the queue and the backend as before.
C10_UnserializableRejected ==
    [][\A s \in Stores :
        (/\ caller[s].pc = "idle"
         /\ caller'[s].pc # "idle"
         /\ caller'[s].op = "set"
         /\ caller'[s].arg = PyFunction)
        => /\ caller'[s].pc = "ret"
           /\ caller'[s].out = "TypeError"
           /\ UNCHANGED <<attributes, last_modified, queue, redis>>]_vars

\* A set of a function was refused by a store that holds values and a queue.
C10_Witness ==
    \E s \in Stores :
        /\ caller[s].pc = "ret"
        /\ caller[s].op = "set"
        /\ caller[s].arg = PyFunction
        /\ caller[s].out = "TypeError"
        /\ queue[s] # <<>>
        /\ caller[s].name \in DOMAIN attributes[s]

\* C19: every entry that leaves the queue is either handed on to be applied,
\* and then applied (the key written, or deleted for a deletion entry), or
\* dropped because the backend held a strictly greater timestamp, whatever the
\* backend does during the drain.
C19_NoQueuedWriteLost ==
    [][\A s \in Stores :
        /\ (bg[s].pc = "flush_pop" /\ Len(queue'[s]) < Len(queue[s]))
           => LET key == Head(queue[s])[1]
                  payload == Head(queue[s])[2]
              IN  \/ bg'[s] = [pc |-> "flush_apply", key |-> key,
                                payload |-> payload]
                  \/ /\ up
                     /\ RedisTimestamp(key) > payload.last_modified
        /\ (bg[s].pc = "flush_apply" /\ bg'[s] # bg[s])
           => redis' = Applied(bg[s].key, bg[s].payload)]_vars

\* Store s's caller has just begun the call op on a name the store lacks.
BeginsOnUnknown(s, op) ==
    /\ caller[s].pc = "idle"
    /\ caller'[s].pc # "idle"
    /\ caller'[s].op = op
    /\ caller'[s].name \notin DOMAIN attributes[s]

\* C11: delete(name) and sync(name) on a name the store's attributes lack
\* raise AttributeError and leave attributes, last_modified, the queue and the
\* backend as they were, with the backend reachable or not, holding the key or
\* not.
C11_UnknownNameRejected ==
    [][\A s \in Stores :
        (BeginsOnUnknown(s, "delete") \/ BeginsOnUnknown(s, "sync"))
        => /\ caller'[s].pc = "ret"
           /\ caller'[s].out = "AttributeError"
           /\ UNCHANGED <<attributes, last_modified, queue, redis>>]_vars

\* A sync was refused for a name the store lacks and the backend holds, with
\* the backend unreachable.
C11_Witness ==
    \E s \in Stores :
        /\ caller[s].pc = "ret"
        /\ caller[s].op = "sync"
        /\ caller[s].out = "AttributeError"
        /\ caller[s].name \notin DOMAIN attributes[s]
        /\ caller[s].name \in DOMAIN redis
        /\ ~up

\* C13: sync(name) on a name the store holds. Backend unreachable: one entry
\* with the local value and the local timestamp is appended to the queue.
\* Backend reachable: when it has no entry, or the local timestamp is greater
\* or equal, the backend entry becomes the local payload and the local state
\* stays; when the backend's timestamp is strictly greater, attributes[name]
\* and last_modified[name] become the backend's and the backend stays.
C13_SyncReconciles ==
    [][\A s \in Stores :
        /\ (/\ ReturnsAtOnce(s, "sync") /\ ~up
            /\ caller'[s].name \in DOMAIN attributes[s])
           => LET n == caller'[s].name
              IN  /\ caller'[s].out = "ok"
                  /\ queue'[s] = Append(queue[s],
                         <<n, Payload(attributes[s][n], LastModified(s, n))>>)
                  /\ UNCHANGED <<attributes, last_modified, redis>>
        /\ (caller[s].pc = "sync_read" /\ up /\ caller'[s] # caller[s])
           => LET n == caller[s].name
              IN  IF \/ n \notin DOMAIN redis
                     \/ LastModified(s, n) >= redis[n].fields.last_modified
                  THEN /\ caller'[s].pc = "sync_write"
                       /\ UNCHANGED <<attributes, last_modified, redis>>
                  ELSE /\ caller'[s].pc = "ret"
                       /\ caller'[s].out = "ok"
                       /\ PyEq(attributes'[s][n], Loads(redis[n].fields.value))
                       /\ last_modified'[s][n] = redis[n].fields.last_modified
                       /\ redis' = redis
        /\ (caller[s].pc = "sync_write" /\ up /\ caller'[s] # caller[s])
           => LET n == caller[s].name
              IN  /\ caller'[s].out = "ok"
                  /\ redis' = Put(redis, n, DumpsPayload(
                         Payload(attributes[s][n], LastModified(s, n))))
                  /\ UNCHANGED <<attributes, last_modified>>]_vars

\* A sync has replaced the local value and timestamp by another store's later
\* write.
C13_Witness ==
    \E s \in Stores :
        /\ caller[s].pc = "ret"
        /\ caller[s].op = "sync"
        /\ caller[s].out = "ok"
        /\ caller[s].name \in DOMAIN attributes[s]
        /\ caller[s].name \in DOMAIN redis
        /\ LastModified(s, caller[s].name) > caller[s].arg.last_modified
        /\ LastModified(s, caller[s].name) = RedisTimestamp(caller[s].name)
        /\ ~PyEq(attributes[s][caller[s].name], caller[s].arg.value)

\* C12: with the backend reachable and no other writer, an intercepted
\* mutation of the container the store holds for name, or of a container
\* nested in it, changes the cached structure and is followed by the sync's
\* write: the backend then holds the mutated structure under name, which a
\* fresh store's get decodes and wraps to a value equal to it.
C12_MutationPropagates ==
    [][\A s \in Stores :
        /\ (/\ caller[s].pc = "idle"
            /\ caller'[s].pc # "idle"
            /\ caller'[s].op = "mutate")
           => LET n == caller'[s].name
              IN  /\ caller'[s].pc = "sync_read"
                  /\ caller'[s].payload.value = attributes'[s][n]
                  /\ \E path \in Paths(attributes[s][n]) :
                        \E mutation \in Mutations(At(attributes[s][n], path)) :
                           attributes'[s][n] =
                              Replaced(attributes[s][n], path,
                                  Mutated(At(attributes[s][n], path), mutation))
        /\ (/\ caller[s].pc = "sync_read"
            /\ caller[s].op = "mutate"
            /\ caller'[s] # caller[s])
           => /\ caller'[s].pc = "sync_write"
              /\ UNCHANGED <<attributes, last_modified>>
        /\ (/\ caller[s].pc = "sync_write"
            /\ caller[s].op = "mutate"
            /\ caller'[s] # caller[s])
           => LET n == caller[s].name
              IN  /\ caller'[s].out = "ok"
                  /\ n \in DOMAIN redis'
                  /\ redis'[n].fields.value = Dumps(attributes[s][n])
                  /\ PyEq(wrap_sync(Loads(redis'[n].fields.value), n),
                          attributes[s][n])
                  /\ UNCHANGED <<attributes, last_modified>>]_vars

\* The backend holds the list whose nested list was appended to.
C12_Witness ==
    /\ caller["A"].pc = "ret"
    /\ caller["A"].op = "mutate"
    /\ caller["A"].out = "ok"
    /\ "x" \in DOMAIN redis
    /\ Loads(redis["x"].fields.value)
          = PyList(<<PyList(<<PyInt(1), PyInt(2)>>)>>)
    /\ PyEq(attributes["A"]["x"], Loads(redis["x"].fields.value))

\* C16: every set, delete and in-place mutation stamps the payload it writes
\* or queues with the clock reading of that moment.
C16_StampedAtMutation ==
    [][\A s \in Stores :
        (/\ caller[s].pc = "idle"
         /\ caller'[s].pc # "idle"
         /\ caller'[s].op \in {"set", "delete", "mutate"})
        => /\ "payload" \in DOMAIN caller'[s]
                => caller'[s].payload.last_modified = now
           /\ Len(queue'[s]) > Len(queue[s])
                => queue'[s][Len(queue'[s])][2].last_modified = now]_vars

\* C17: mutating the value aslist / asdict returned leaves attributes,
\* last_modified, the queue and the backend as they were, and sets off no
\* sync, at any depth and also for items an intercepted mutation added.
C17_DetachIndependent ==
    [][\A s \in Stores :
        (/\ caller[s].pc = "ret"
         /\ caller[s].op = "detach"
         /\ caller'[s] # caller[s]
         /\ caller'[s].pc = "ret")
        => UNCHANGED <<attributes, last_modified, queue, redis>>]_vars

\* C14: teardown goes on to its final drain exactly when the backend has been
\* reachable at least once in the store's life, the ping of the teardown and
\* the one of the construction included; when it never was, teardown returns
\* at once and drains nothing.
C14_TeardownDrain ==
    [][\A s \in Stores :
        (caller[s].pc = "exit_connect" /\ caller'[s] # caller[s])
        => IF reached'[s]
           THEN caller'[s].pc = IF queue[s] # <<>> THEN "exit_flush_connect"
                                ELSE "exit_stop"
           ELSE /\ caller'[s] = Closed("ok")
                /\ UNCHANGED <<queue, redis>>]_vars

\* C15: whenever teardown has returned, the stop event is set and the
\* background thread has ended.
C15_TeardownStopsLoop ==
    \A s \in Stores :
        (caller[s].pc = "closed" /\ caller[s].out = "ok")
        => /\ stop_event[s]
           /\ bg[s].pc \in {"stopped", "dead"}

\* C18: a construction whose preload the backend answers loads every key
\* under the prefix: attributes[name] equals the stored value and
\* last_modified[name] the stored timestamp. With the backend unreachable the
\* construction completes with attributes, last_modified and the queue empty.
C18_Preload ==
    [][\A s \in Stores :
        /\ (caller[s].pc = "new" /\ caller'[s].pc # "new" /\ ~up)
           => /\ caller'[s] = Idle
              /\ attributes'[s] = EmptyDict
              /\ last_modified'[s] = EmptyDict
              /\ queue'[s] = <<>>
        /\ (caller[s].pc = "load_scan" /\ caller'[s] # caller[s] /\ up)
           => /\ caller'[s].pc = "load_key"
              /\ caller'[s].keys = DOMAIN redis
        /\ (caller[s].pc = "load_key" /\ caller'[s].pc = "load_key" /\ up)
           => \A n \in (caller[s].keys \ caller'[s].keys) \cap DOMAIN redis :
                 /\ n \in DOMAIN attributes'[s]
                 /\ PyEq(attributes'[s][n], Loads(redis[n].fields.value))
                 /\ last_modified'[s][n] = redis[n].fields.last_modified
        /\ (caller[s].pc = "load_key" /\ caller'[s].pc = "idle")
           => caller[s].keys = {}]_vars

\* B is constructed and holds the list A wrote, with A's timestamp.
C18_Witness ==
    /\ caller["B"].pc = "idle"
    /\ "x" \in DOMAIN redis
    /\ "x" \in DOMAIN attributes["B"]
    /\ attributes["B"]["x"] = PyList(<<PyInt(1)>>)
    /\ Loads(redis["x"].fields.value) = PyList(<<PyInt(1)>>)
    /\ last_modified["B"]["x"] = redis["x"].fields.last_modified
    /\ last_modified["B"]["x"] = last_modified["A"]["x"]

\* C20: when the drain of the teardown and the drain of the background thread
\* have both finished, the backend holds for each key the outcome of the entry
\* the store queued last for it: the key absent for a deletion entry, the
\* entry's payload otherwise.
C20_DrainsKeepOrder ==
    \A s \in Stores :
        (/\ caller[s].pc = "closed"
         /\ caller[s].out = "ok"
         /\ bg[s].pc = "stopped")
        => \A n \in DOMAIN pending[s] :
              IF pending[s][n].payload.value = PyNone
              THEN n \notin DOMAIN redis
              ELSE /\ n \in DOMAIN redis
                   /\ redis[n] = DumpsPayload(pending[s][n].payload)

\* C21: in every state of a store a name is in attributes exactly when it is
\* in the last-modified index, after construction and preload, set, get, sync
\* and delete.
C21_IndexMatchesAttributes ==
    \A s \in Stores : DOMAIN attributes[s] = DOMAIN last_modified[s]

\* C23: every list or dict the store caches under a name is a tracking
\* container, whichever operation cached it: set, get, a sync that pulls, or
\* the preload of the construction.
C23_CachedContainersTracked ==
    \A s \in Stores :
        \A n \in DOMAIN attributes[s] : attributes[s][n].t \notin {"list", "dict"}

\* C24: a stored text without the envelope is read as the value with the
\* timestamp 0: get returns it and records 0, the preload caches it and
\* records 0, the drain and sync compare their timestamp with 0 (which no
\* timestamp is below) and go on to write.
C24_LegacyFallback ==
    [][\A s \in Stores :
        /\ (/\ caller[s].pc = "get_read" /\ caller'[s] # caller[s] /\ up
            /\ caller[s].name \in DOMAIN redis
            /\ ~IsEnvelope(redis[caller[s].name]))
           => LET n == caller[s].name
              IN  /\ caller'[s].out = "ok"
                  /\ PyEq(caller'[s].value, Loads(redis[n]))
                  /\ n \in DOMAIN last_modified'[s]
                  /\ last_modified'[s][n] = 0
        /\ (caller[s].pc = "load_key" /\ caller'[s].pc = "load_key" /\ up)
           => \A n \in (caller[s].keys \ caller'[s].keys) \cap DOMAIN redis :
                 ~IsEnvelope(redis[n])
                 => /\ n \in DOMAIN attributes'[s]
                    /\ PyEq(attributes'[s][n], Loads(redis[n]))
                    /\ n \in DOMAIN last_modified'[s]
                    /\ last_modified'[s][n] = 0
        /\ (/\ bg[s].pc = "flush_pop" /\ up /\ Len(queue'[s]) < Len(queue[s])
            /\ Head(queue[s])[1] \in DOMAIN redis
            /\ ~IsEnvelope(redis[Head(queue[s])[1]]))
           => bg'[s] = [pc |-> "flush_apply", key |-> Head(queue[s])[1],
                        payload |-> Head(queue[s])[2]]
        /\ (/\ caller[s].pc = "sync_read" /\ caller'[s] # caller[s] /\ up
            /\ caller[s].name \in DOMAIN redis
            /\ ~IsEnvelope(redis[caller[s].name]))
           => caller'[s].pc = "sync_write"]_vars

\* C22: a get the backend does not fail, on a store whose last write of the
\* name is a set of a value v (not null) that it queued during an outage,
\* returns normally and leaves the store with a timestamp for the name that is
\* at least the queued one, before and after the backend returns and the
\* drain: never AttributeError, never an older value.
C22_ReadYourWrites ==
    [][\A s \in Stores :
        (/\ caller[s].pc \in {"idle", "get_read"}
         /\ caller'[s].pc = "ret"
         /\ caller'[s].op = "get"
         /\ caller'[s].out # "ConnectionError"
         /\ caller'[s].name \in DOMAIN pending[s]
         /\ pending[s][caller'[s].name].op = "set"
         /\ pending[s][caller'[s].name].payload.value # PyNone)
        => LET n == caller'[s].name
           IN  /\ caller'[s].out = "ok"
               /\ n \in DOMAIN last_modified'[s]
               /\ last_modified'[s][n]
                     >= pending[s][n].payload.last_modified]_vars

\* C27: for a single store with no other writer, when the sets and deletes of
\* an outage are drained, the backend has for every key what the same calls
\* made with the backend reachable leave: the key absent when the last call
\* on it was a delete, the key present with the value of the last set
\* otherwise, the value null included.
C27_QueuedEqualsDirect ==
    [][\A s \in Stores :
        DrainCompletes(s)
        => \A n \in DOMAIN pending[s] :
              IF pending[s][n].op = "delete"
              THEN n \notin DOMAIN redis'
              ELSE /\ n \in DOMAIN redis'
                   /\ redis'[n].fields.value
                         = Dumps(pending[s][n].payload.value)]_vars

\* C25: with one clock shared by all stores and no delete, the last_modified
\* the backend holds for a key never decreases, under every interleaving of
\* the steps of set, sync and the drains of all stores and threads.
C25_BackendTimestampMonotone ==
    [][\A n \in DOMAIN redis :
          /\ n \in DOMAIN redis'
          /\ Timestamp(redis'[n]) >= Timestamp(redis[n])]_vars

\* C26: once a delete stamped t2 has removed a key from the backend, directly
\* or as a drained deletion entry, no drain of any store recreates the key
\* from a queued write stamped t1 < t2.
C26_DeleteNotUndone ==
    [][\A s \in Stores :
        (/\ bg[s].pc = "flush_apply"
         /\ bg'[s] # bg[s]
         /\ bg[s].payload.value # PyNone
         /\ bg[s].key \in DOMAIN removed
         /\ bg[s].payload.last_modified < removed[bg[s].key])
        => bg[s].key \notin DOMAIN redis']_vars

\* C28: with the backend reachable and no other writer, an intercepted
\* mutation made through a container an earlier get returned, after a later
\* get of the name has replaced the cached container, ends with the backend
\* holding for the name the value of the mutated container.
C28_StaleHandleMutationKept ==
    [][\A s \in Stores :
        (/\ caller[s].pc = "sync_write"
         /\ caller[s].op = "stale"
         /\ caller'[s] # caller[s]
         /\ up)
        => LET n == caller[s].name
           IN  /\ n \in DOMAIN redis'
               /\ redis'[n].fields.value = Dumps(held[s].value)]_vars
====
